---- MODULE Spec2Model ----
(***************************************************************************)
(* The embedded cipher library (src/src/cipher.c): an in-place two-stage   *)
(* transform of a null-terminated string, a split-shift of the characters  *)
(* followed by a table substitution, with its validation gate and the      *)
(* upper-casing helper.                                                    *)
(*                                                                         *)
(* A character is its byte value (0 is the terminator).  The caller's      *)
(* memory at str[0], str[1], ... is a sequence of bytes: the string, its   *)
(* terminator, and the byte that follows the terminator in the caller's    *)
(* memory.  str[j] of the C code is At(s, j), element j + 1 of s.          *)
(* The byte after the terminator may lie inside the caller's array or      *)
(* past its end, where an access is undefined: what the code finds there   *)
(* is any of Tails.                                                        *)
(***************************************************************************)
EXTENDS Integers, Sequences, FiniteSets

VARIABLES
    str,      \* the pointer the caller passes: "NULL" or "buf"
    mem,      \* the bytes at str[0..]
    ncalls,   \* calls made so far
    last,     \* the last call: function, key, returned status, stages run, highest index swapped or written
    prev,     \* the call before it
    before,   \* mem as it was when the last call was made
    before2   \* mem as it was when the call before it was made

vars == <<str, mem, ncalls, last, prev, before, before2>>

-----------------------------------------------------------------------------
(* Bounds of the model *)

\* longest string of the exhaustive inputs
MaxLen == 3
\* largest key a call is made with
MaxKey == 2
\* calls made in one behaviour
MaxCalls == 2

-----------------------------------------------------------------------------
(* cipher.h *)

CIPHER_MAX_INPUT_LEN == 10000
CIPHER_TABLE_SIZE == 20

CIPHER_SUCCESS == 0
CIPHER_ERROR_NULL_POINTER == -1
CIPHER_ERROR_INVALID_KEY == -2
CIPHER_ERROR_INVALID_LENGTH == -3

-----------------------------------------------------------------------------
(* C arithmetic and library functions used by cipher.c *)

\* int / int truncates toward zero: (0 - 1) / 2 is 0
CDiv(a, b) == IF a >= 0 THEN a \div b ELSE -((-a) \div b)

MaxOf(a, b) == IF a >= b THEN a ELSE b

MinOf(a, b) == IF a <= b THEN a ELSE b

\* str[j]
At(s, j) == s[j + 1]

\* str[lo], ..., str[hi]
Slice(s, lo, hi) == SubSeq(s, lo + 1, hi + 1)

\* strlen: the index of the first 0
strlen(s) ==
    CHOOSE j \in 0..(Len(s) - 1) :
        s[j + 1] = 0 /\ \A k \in 0..(j - 1) : s[k + 1] # 0

\* toupper in the "C" locale, on an unsigned char
toupper(c) == IF c >= 97 /\ c <= 122 THEN c - 32 ELSE c

-----------------------------------------------------------------------------
(* The substitution table: row a is <<plaintext symbol, ciphertext symbol>> *)

\* row 2 is {'1', 'B'}: the ciphertext symbol 'B' is given twice
SUBSTITUTION_TABLE_duplicate ==
    << <<48, 66>>, <<49, 66>>, <<50, 67>>, <<51, 68>>,
       <<52, 58>>, <<53, 70>>, <<54, 69>>, <<55, 57>>,
       <<56, 51>>, <<57, 56>>, <<65, 50>>, <<66, 52>>,
       <<67, 44>>, <<68, 48>>, <<69, 61>>, <<70, 49>>,
       <<58, 65>>, <<44, 55>>, <<61, 53>>, <<59, 54>> >>

SUBSTITUTION_TABLE ==
    << <<48, 66>>, <<49, 59>>, <<50, 67>>, <<51, 68>>,
       <<52, 58>>, <<53, 70>>, <<54, 69>>, <<55, 57>>,
       <<56, 51>>, <<57, 56>>, <<65, 50>>, <<66, 52>>,
       <<67, 44>>, <<68, 48>>, <<69, 61>>, <<70, 49>>,
       <<58, 65>>, <<44, 55>>, <<61, 53>>, <<59, 54>> >>

-----------------------------------------------------------------------------
(* validate_arg *)

\* the length is checked before the key
validate_arg_length_first(p, s, key) ==
    IF p = "NULL" THEN CIPHER_ERROR_NULL_POINTER
    ELSE IF strlen(s) > CIPHER_MAX_INPUT_LEN THEN CIPHER_ERROR_INVALID_LENGTH
    ELSE IF key <= 0 THEN CIPHER_ERROR_INVALID_KEY
    ELSE CIPHER_SUCCESS

validate_arg(p, s, key) ==
    IF p = "NULL" THEN CIPHER_ERROR_NULL_POINTER
    ELSE IF key <= 0 THEN CIPHER_ERROR_INVALID_KEY
    ELSE IF strlen(s) > CIPHER_MAX_INPUT_LEN THEN CIPHER_ERROR_INVALID_LENGTH
    ELSE CIPHER_SUCCESS

-----------------------------------------------------------------------------
(* The split-shift stage *)

\* for (j = lo; j < hi; j++) { swap str[j], str[j + 1] }
\* each swap carries the byte that started at lo one place up, so the run
\* leaves it at hi and every byte of lo+1..hi one place down
SweepUp(s, lo, hi) ==
    IF lo >= hi THEN s
    ELSE Slice(s, 0, lo - 1) \o Slice(s, lo + 1, hi) \o <<At(s, lo)>>
         \o Slice(s, hi + 1, Len(s) - 1)

\* for (j = hi; j > lo; j--) { swap str[j - 1], str[j] }
\* each swap carries the byte that started at hi one place down, so the run
\* leaves it at lo and every byte of lo..hi-1 one place up
SweepDown(s, hi, lo) ==
    IF hi <= lo THEN s
    ELSE Slice(s, 0, lo - 1) \o <<At(s, hi)>> \o Slice(s, lo, hi - 1)
         \o Slice(s, hi + 1, Len(s) - 1)

\* the highest index a sweep swaps, -1 when its loop body never runs
SweepUpTop(lo, hi) == IF lo >= hi THEN -1 ELSE hi

SweepDownTop(hi, lo) == IF hi <= lo THEN -1 ELSE hi

\* the lower sweep stops one short, as the comment above the function reads
shift_left_once_skip_mid(s, len) ==
    LET mid == CDiv(len - 1, 2)
    IN  SweepUp(SweepUp(s, 0, mid - 1), mid + 1, len - 1)

shift_left_once(s, len) ==
    LET mid == CDiv(len - 1, 2)
    IN  SweepUp(SweepUp(s, 0, mid), mid + 1, len - 1)

shift_right_once(s, len) ==
    LET mid == CDiv(len - 1, 2)
    IN  SweepDown(SweepDown(s, len - 1, mid), mid + 1, 0)

shift_left_top(len) ==
    LET mid == CDiv(len - 1, 2)
    IN  MaxOf(SweepUpTop(0, mid), SweepUpTop(mid + 1, len - 1))

shift_right_top(len) ==
    LET mid == CDiv(len - 1, 2)
    IN  MaxOf(SweepDownTop(len - 1, mid), SweepDownTop(mid + 1, 0))

-----------------------------------------------------------------------------
(* The substitution stage *)

\* the inner loop: the first row whose plaintext side is c gives the result
forward_char(c) ==
    LET M == {a \in 1..CIPHER_TABLE_SIZE : SUBSTITUTION_TABLE[a][1] = c}
    IN  IF M = {} THEN c
        ELSE SUBSTITUTION_TABLE[CHOOSE a \in M : \A b \in M : a <= b][2]

\* the inner loop: the first row whose ciphertext side is c gives the result
reverse_char(c) ==
    LET M == {a \in 1..CIPHER_TABLE_SIZE : SUBSTITUTION_TABLE[a][2] = c}
    IN  IF M = {} THEN c
        ELSE SUBSTITUTION_TABLE[CHOOSE a \in M : \A b \in M : a <= b][1]

\* the inner loops' results, for each value of a byte
forward_map == [c \in 0..255 |-> forward_char(c)]

reverse_map == [c \in 0..255 |-> reverse_char(c)]

\* the outer loop runs while i < len and str[i] is not the terminator
substitute_stop(s, len) == MinOf(len, strlen(s))

substitute_forward(s, len) ==
    LET n == substitute_stop(s, len)
    IN  Slice([i \in 1..n |-> forward_map[s[i]]], 0, n - 1)
        \o Slice(s, n, Len(s) - 1)

substitute_reverse(s, len) ==
    LET n == substitute_stop(s, len)
    IN  Slice([i \in 1..n |-> reverse_map[s[i]]], 0, n - 1)
        \o Slice(s, n, Len(s) - 1)

-----------------------------------------------------------------------------
(* The stages of a call, in the order the function body runs them *)

RunStage(name, s, len) ==
    CASE name = "shift_left_once" -> shift_left_once(s, len)
      [] name = "shift_right_once" -> shift_right_once(s, len)
      [] name = "substitute_forward" -> substitute_forward(s, len)
      [] name = "substitute_reverse" -> substitute_reverse(s, len)

StageTop(name, s, len) ==
    CASE name = "shift_left_once" -> shift_left_top(len)
      [] name = "shift_right_once" -> shift_right_top(len)
      [] name = "substitute_forward" -> substitute_stop(s, len) - 1
      [] name = "substitute_reverse" -> substitute_stop(s, len) - 1

Outcome(status, s, stages, top) ==
    [status |-> status, mem |-> s, stages |-> stages, top |-> top]

\* the stages `todo` run in order on the buffer of r, which has run r.stages
RECURSIVE RunStages(_, _, _)
RunStages(todo, r, len) ==
    IF todo = <<>> THEN r
    ELSE RunStages(Tail(todo),
                   Outcome(r.status,
                           RunStage(Head(todo), r.mem, len),
                           Append(r.stages, Head(todo)),
                           MaxOf(r.top, StageTop(Head(todo), r.mem, len))),
                   len)

\* the substitution stage is left out
encrypt_stages_shift_only(key) ==
    [i \in 1..key |-> "shift_left_once"]

\* cipher_encrypt after validation: key left steps, then the substitution
encrypt_stages(key) ==
    [i \in 1..key |-> "shift_left_once"] \o <<"substitute_forward">>

\* cipher_decrypt after validation: key right steps, then the substitution
decrypt_stages(key) ==
    [i \in 1..key |-> "shift_right_once"] \o <<"substitute_reverse">>

\* the status is looked at only after the stages have run
cipher_encrypt_late_check(p, s, key) ==
    LET status == validate_arg(p, s, key)
    IN  IF p = "NULL" THEN Outcome(status, s, <<>>, -1)
        ELSE RunStages(encrypt_stages(key), Outcome(status, s, <<>>, -1),
                       strlen(s))

cipher_encrypt(p, s, key) ==
    LET status == validate_arg(p, s, key)
    IN  IF status # CIPHER_SUCCESS THEN Outcome(status, s, <<>>, -1)
        ELSE RunStages(encrypt_stages(key), Outcome(status, s, <<>>, -1),
                       strlen(s))

cipher_decrypt(p, s, key) ==
    LET status == validate_arg(p, s, key)
    IN  IF status # CIPHER_SUCCESS THEN Outcome(status, s, <<>>, -1)
        ELSE RunStages(decrypt_stages(key), Outcome(status, s, <<>>, -1),
                       strlen(s))

\* the case bit of every letter is flipped
cipher_to_uppercase_flip_case(p, s) ==
    IF p = "NULL" THEN Outcome(CIPHER_SUCCESS, s, <<>>, -1)
    ELSE LET n == strlen(s)
             flip(c) == IF c >= 97 /\ c <= 122 THEN c - 32
                        ELSE IF c >= 65 /\ c <= 90 THEN c + 32 ELSE c
         IN  Outcome(CIPHER_SUCCESS,
                     Slice([i \in 1..n |-> flip(s[i])], 0, n - 1)
                     \o Slice(s, n, Len(s) - 1),
                     <<>>, n - 1)

\* returns nothing: the status field is unused
cipher_to_uppercase(p, s) ==
    IF p = "NULL" THEN Outcome(CIPHER_SUCCESS, s, <<>>, -1)
    ELSE LET n == strlen(s)
         IN  Outcome(CIPHER_SUCCESS,
                     Slice([i \in 1..n |-> toupper(s[i])], 0, n - 1)
                     \o Slice(s, n, Len(s) - 1),
                     <<>>, n - 1)

-----------------------------------------------------------------------------
(* The inputs *)

\* 'A' (in the table), '1' (in the table), 'x' (a lower-case pass-through)
Chars == {65, 49, 120}

\* the byte after the terminator: 0 as strncpy leaves it, or 'Z'
Tails == {0, 90}

\* the keys a call is made with: the tests' -3 and 0, and the valid ones
Keys == {-3} \cup (0..MaxKey)

RECURSIVE StringsOf(_)
StringsOf(n) ==
    IF n = 0 THEN {<<>>}
    ELSE LET S == StringsOf(n - 1)
         IN  S \cup {Append(s, c) : s \in {t \in S : Len(t) = n - 1}, c \in Chars}

\* "ABCDEF", "1234ABCD", "0123456789ABCDEF", "ABCD", "abcdef123" of the tests,
\* "`az{" around the lower-case range followed by the byte 233, and
\* "1F5=E6;xxxxxx"
Vectors ==
    { <<65, 66, 67, 68, 69, 70>>,
      <<49, 50, 51, 52, 65, 66, 67, 68>>,
      <<48, 49, 50, 51, 52, 53, 54, 55, 56, 57, 65, 66, 67, 68, 69, 70>>,
      <<65, 66, 67, 68>>,
      <<97, 98, 99, 100, 101, 102, 49, 50, 51>>,
      <<96, 97, 122, 123, 233>>,
      <<49, 70, 53, 61, 69, 54, 59, 120, 120, 120, 120, 120, 120>> }

\* the string s in memory: its bytes, the terminator, the byte after it
MemOf(s, t) == s \o <<0, t>>

\* a string of n characters "A1xA1x...", zero-filled after the terminator
LongMem(n) ==
    Slice([i \in 1..n |->
              IF i % 3 = 1 THEN 65 ELSE IF i % 3 = 2 THEN 49 ELSE 120], 0, n - 1)
    \o <<0, 0>>

InitMems ==
    {MemOf(s, t) : s \in StringsOf(MaxLen) \cup Vectors, t \in Tails}
    \cup {LongMem(CIPHER_MAX_INPUT_LEN), LongMem(CIPHER_MAX_INPUT_LEN + 1)}

NoMem == <<>>

NoCall == [fn |-> "none", key |-> 0, status |-> CIPHER_SUCCESS,
           stages |-> <<>>, top |-> -1]

Call(fn, key, r) ==
    [fn |-> fn, key |-> key, status |-> r.status, stages |-> r.stages,
     top |-> r.top]

-----------------------------------------------------------------------------
(* The caller: a buffer, or no buffer, and up to MaxCalls calls on it *)

Init ==
    /\ \/ str = "buf" /\ mem \in InitMems
       \/ str = "NULL" /\ mem = NoMem
    /\ ncalls = 0
    /\ last = NoCall
    /\ prev = NoCall
    /\ before = mem
    /\ before2 = mem

Record(fn, key, r) ==
    /\ mem' = r.mem
    /\ last' = Call(fn, key, r)
    /\ prev' = last
    /\ before' = mem
    /\ before2' = before
    /\ ncalls' = ncalls + 1
    /\ UNCHANGED str

Encrypt ==
    /\ ncalls < MaxCalls
    /\ \E key \in Keys : Record("cipher_encrypt", key, cipher_encrypt(str, mem, key))

Decrypt ==
    /\ ncalls < MaxCalls
    /\ \E key \in Keys : Record("cipher_decrypt", key, cipher_decrypt(str, mem, key))

ToUppercase ==
    /\ ncalls < MaxCalls
    /\ Record("cipher_to_uppercase", 0, cipher_to_uppercase(str, mem))

Next == Encrypt \/ Decrypt \/ ToUppercase

Spec == Init /\ [][Next]_vars

-----------------------------------------------------------------------------
(* The stage functions on their own.  They are static: cipher_encrypt and  *)
(* cipher_decrypt reach them only after validate_arg has passed, with len  *)
(* the strlen of the buffer.                                               *)

Validated == validate_arg(str, mem, 1) = CIPHER_SUCCESS

StageOutcome(name) ==
    RunStages(<<name>>, Outcome(CIPHER_SUCCESS, mem, <<>>, -1), strlen(mem))

ShiftLeftOnce ==
    /\ ncalls < MaxCalls
    /\ Validated
    /\ Record("shift_left_once", 0, StageOutcome("shift_left_once"))

ShiftRightOnce ==
    /\ ncalls < MaxCalls
    /\ Validated
    /\ Record("shift_right_once", 0, StageOutcome("shift_right_once"))

SubstituteForward ==
    /\ ncalls < MaxCalls
    /\ Validated
    /\ Record("substitute_forward", 0, StageOutcome("substitute_forward"))

SubstituteReverse ==
    /\ ncalls < MaxCalls
    /\ Validated
    /\ Record("substitute_reverse", 0, StageOutcome("substitute_reverse"))

NextStage ==
    ShiftLeftOnce \/ ShiftRightOnce \/ SubstituteForward \/ SubstituteReverse

SpecStage == Init /\ [][NextStage]_vars

-----------------------------------------------------------------------------
(* What the claims speak of *)

\* the string in memory m: the bytes before the terminator
Text(m) == Slice(m, 0, strlen(m) - 1)

\* the bytes of m from index j on
From(m, j) == Slice(m, j, Len(m) - 1)

IsCrypt(c) == c.fn \in {"cipher_encrypt", "cipher_decrypt"}

Succeeded(c) == IsCrypt(c) /\ c.status = 0

PlainSide == {SUBSTITUTION_TABLE[a][1] : a \in 1..Len(SUBSTITUTION_TABLE)}

CipherSide == {SUBSTITUTION_TABLE[a][2] : a \in 1..Len(SUBSTITUTION_TABLE)}

HasTableChar(x) == \E i \in 1..Len(x) : x[i] \in PlainSide

HasPassThrough(x) == \E i \in 1..Len(x) : x[i] \notin PlainSide \cup CipherSide

-----------------------------------------------------------------------------
(* C1: round trip.  For every buffer of at most 10000 characters and every *)
(* key K >= 1, cipher_encrypt with K followed by cipher_decrypt with the   *)
(* same K returns Success twice and leaves the string equal to the         *)
(* original.                                                               *)
C1_RoundTrip ==
    ( /\ str = "buf"
      /\ prev.fn = "cipher_encrypt"
      /\ last.fn = "cipher_decrypt"
      /\ prev.key >= 1
      /\ last.key = prev.key
      /\ strlen(before2) <= 10000 )
    => /\ prev.status = 0
       /\ last.status = 0
       /\ Text(mem) = Text(before2)

-----------------------------------------------------------------------------
(* C2: the status of cipher_encrypt and cipher_decrypt is NullPointer (-1) *)
(* for an absent buffer whatever the key, otherwise InvalidKey (-2) for a  *)
(* key <= 0 whatever the length, otherwise InvalidLength (-3) for a length *)
(* above 10000, otherwise Success (0).                                     *)
C2_StatusPrecedence ==
    IsCrypt(last) =>
        last.status =
            IF str = "NULL" THEN -1
            ELSE IF last.key <= 0 THEN -2
            ELSE IF strlen(before) > 10000 THEN -3
            ELSE 0

\* an over-length buffer was refused for its key, then for its length
C2_Witness ==
    /\ str = "buf"
    /\ prev.fn = "cipher_encrypt"
    /\ prev.key <= 0
    /\ prev.status = -2
    /\ strlen(before2) = 10001
    /\ last.fn = "cipher_decrypt"
    /\ last.key >= 1
    /\ last.status = -3

-----------------------------------------------------------------------------
(* C3: when cipher_encrypt or cipher_decrypt returns a status other than   *)
(* Success, every byte of the buffer, terminator included, is what it was  *)
(* before the call: no stage has run and no index has been swapped or      *)
(* written.                                                                *)
C3_FailureLeavesBuffer ==
    (IsCrypt(last) /\ last.status # 0) =>
        /\ mem = before
        /\ last.stages = <<>>
        /\ last.top = -1

\* a buffer of three characters or more was refused for its key
C3_Witness ==
    /\ str = "buf"
    /\ last.fn = "cipher_encrypt"
    /\ last.status = -2
    /\ strlen(before) >= 3
    /\ mem = before

-----------------------------------------------------------------------------
(* C4: a successful cipher_encrypt or cipher_decrypt on a buffer of length *)
(* L leaves the terminator at index L and none below it, and touches no    *)
(* byte at index L or beyond: only indices 0..L-1 are rewritten.           *)
C4_LengthAndFrame ==
    Succeeded(last) =>
        LET L == strlen(before)
        IN  /\ At(mem, L) = 0
            /\ \A j \in 0..(L - 1) : At(mem, j) # 0
            /\ From(mem, L) = From(before, L)
            /\ last.top < L

-----------------------------------------------------------------------------
(* C5: non-identity.  No row of the table maps a character to itself, and  *)
(* a successful cipher_encrypt of a buffer holding at least one table      *)
(* character leaves a string that differs from the original.               *)
NoFixedPoint ==
    \A a \in 1..Len(SUBSTITUTION_TABLE) :
        SUBSTITUTION_TABLE[a][1] # SUBSTITUTION_TABLE[a][2]

-----------------------------------------------------------------------------
(* Rotation of a sequence by k positions, and the table applied to each    *)
(* element of a sequence.                                                  *)

RotLeft(x, k) ==
    IF x = <<>> THEN x
    ELSE LET r == k % Len(x)
         IN  SubSeq(x, r + 1, Len(x)) \o SubSeq(x, 1, r)

RotRight(x, k) ==
    IF x = <<>> THEN x
    ELSE LET r == k % Len(x)
         IN  SubSeq(x, Len(x) - r + 1, Len(x)) \o SubSeq(x, 1, Len(x) - r)

MapForward(x) == [i \in 1..Len(x) |-> forward_map[x[i]]]

MapReverse(x) == [i \in 1..Len(x) |-> reverse_map[x[i]]]

-----------------------------------------------------------------------------
-----------------------------------------------------------------------------
(* C7: cipher_to_uppercase replaces each ASCII lower-case letter of the    *)
(* string by its upper-case letter and leaves every other byte and the     *)
(* length unchanged; applied to its own result it changes nothing; on an   *)
(* absent buffer it returns without effect.                                *)
C7_Uppercase ==
    last.fn = "cipher_to_uppercase" =>
        IF str = "NULL" THEN mem = before
        ELSE LET L == strlen(before)
             IN  /\ Len(mem) = Len(before)
                 /\ strlen(mem) = L
                 /\ \A j \in 0..(L - 1) :
                        At(mem, j) = IF At(before, j) \in 97..122
                                     THEN At(before, j) - 32
                                     ELSE At(before, j)
                 /\ From(mem, L) = From(before, L)
                 /\ cipher_to_uppercase(str, mem).mem = mem

\* a string with a lower-case letter and another character was upper-cased twice
C7_Witness ==
    /\ str = "buf"
    /\ prev.fn = "cipher_to_uppercase"
    /\ last.fn = "cipher_to_uppercase"
    /\ \E j \in 0..(strlen(before2) - 1) : At(before2, j) \in 97..122
    /\ \E j \in 0..(strlen(before2) - 1) : At(before2, j) \notin 97..122
    /\ before # before2
    /\ mem = before

-----------------------------------------------------------------------------
(* C8: in every left-rotation step and every right-rotation step on a      *)
(* sequence of length L the element at index mid = (L-1)/2 is not moved:   *)
(* the lower segment [0, mid) and the upper segment (mid, L) are each      *)
(* rotated by one position, and after any number of steps the character at *)
(* mid is the one that was there before.                                   *)
C8_MidpointFixed ==
    LET IsShift(c) == c.fn \in {"shift_left_once", "shift_right_once"}
        L == strlen(before)
        mid == (L - 1) \div 2
        lower == Slice(before, 0, mid - 1)
        upper == Slice(before, mid + 1, L - 1)
    IN  /\ (IsShift(last) /\ L = 0) => mem = before
        /\ (IsShift(last) /\ L >= 1) =>
                /\ At(mem, mid) = At(before, mid)
                /\ From(mem, L) = From(before, L)
                /\ last.fn = "shift_left_once" =>
                        /\ Slice(mem, 0, mid - 1) = RotLeft(lower, 1)
                        /\ Slice(mem, mid + 1, L - 1) = RotLeft(upper, 1)
                /\ last.fn = "shift_right_once" =>
                        /\ Slice(mem, 0, mid - 1) = RotRight(lower, 1)
                        /\ Slice(mem, mid + 1, L - 1) = RotRight(upper, 1)
        /\ (IsShift(last) /\ IsShift(prev) /\ strlen(before2) >= 1) =>
                At(mem, (strlen(before2) - 1) \div 2)
                    = At(before2, (strlen(before2) - 1) \div 2)

-----------------------------------------------------------------------------
(* C9: a successful cipher_encrypt runs its K left-rotation steps and then *)
(* the forward substitution; a successful cipher_decrypt runs the reverse  *)
(* substitution first and then its K right-rotation steps.                 *)
C9_StageOrder ==
    /\ (last.fn = "cipher_encrypt" /\ last.status = 0) =>
            last.stages = [i \in 1..last.key |-> "shift_left_once"]
                          \o <<"substitute_forward">>
    /\ (last.fn = "cipher_decrypt" /\ last.status = 0) =>
            last.stages = <<"substitute_reverse">>
                          \o [i \in 1..last.key |-> "shift_right_once"]

-----------------------------------------------------------------------------
(* C10: the table is a bijection with an exact inverse: its 20 plaintext   *)
(* symbols are pairwise distinct, its 20 ciphertext symbols are pairwise   *)
(* distinct, reverse substitution after forward substitution and forward   *)
(* after reverse return the original, for every character and every        *)
(* string, and a character on neither side is left unchanged by both.      *)
TableIsBijection ==
    /\ Len(SUBSTITUTION_TABLE) = 20
    /\ Cardinality(PlainSide) = 20
    /\ Cardinality(CipherSide) = 20
    /\ \A c \in 0..255 :
            /\ reverse_char(forward_char(c)) = c
            /\ forward_char(reverse_char(c)) = c
            /\ c \notin PlainSide \cup CipherSide =>
                    forward_char(c) = c /\ reverse_char(c) = c

C10_TableBijection ==
    /\ TableIsBijection
    /\ last.fn = "substitute_forward" =>
            substitute_reverse(mem, strlen(mem)) = before
    /\ last.fn = "substitute_reverse" =>
            substitute_forward(mem, strlen(mem)) = before

\* a string with a table character and a pass-through character was substituted
C10_Witness ==
    /\ last.fn = "substitute_forward"
    /\ HasTableChar(Text(before))
    /\ HasPassThrough(Text(before))
    /\ mem # before
    /\ substitute_reverse(mem, strlen(mem)) = before

-----------------------------------------------------------------------------
(* C11: the shift stage is periodic in the key with period floor(L/2): on  *)
(* a valid buffer of length L >= 2, even or odd, and with a key K >= 1,    *)
(* cipher_encrypt with key K + floor(L/2) leaves the same buffer as        *)
(* cipher_encrypt with key K, and cipher_decrypt likewise.                 *)
C11_KeyPeriod ==
    LET L == strlen(before)
        K == last.key
    IN  (Succeeded(last) /\ L >= 2 /\ K >= 1) =>
            /\ last.fn = "cipher_encrypt" =>
                    cipher_encrypt(str, before, K + (L \div 2)).mem = mem
            /\ last.fn = "cipher_decrypt" =>
                    cipher_decrypt(str, before, K + (L \div 2)).mem = mem

====
